---- MODULE Spec2Model ----
(***************************************************************************)
(* Conway's Game of Life, the two parallel programs of the repository:     *)
(*   gol-par.cpp  std::thread workers over a static block partition        *)
(*   gol-omp.cpp  an OpenMP parallel for with schedule(dynamic)            *)
(* One behaviour is one run of one of the two programs (variable variant). *)
(* Vectors are sequences; the C++ index i is the TLA+ index i + 1.         *)
(***************************************************************************)
EXTENDS Integers, Sequences, FiniteSets, TLC

\* ------------------------------------------------------------------ bounds
MaxRows == 3
MaxCols == 2
MaxWorkers == 3
MaxIters == 2
\* Board sizes of the runs that exercise updateCell alone (one worker, one step).
CellRows == 3
CellCols == 3

\* ------------------------------------------------------- program constants
\* Largest value of the int fields Range.start and Range.end.
IntMax == 2147483647

VARIABLES
    pool,       \* gol-omp: threads the OpenMP runtime keeps from the last region
    nw_arg,     \* main: atoi(argv[6]), the number of workers asked for
    variant,    \* "par" (gol-par.cpp) or "omp" (gol-omp.cpp)
    nrows,      \* main: nrows
    ncols,      \* main: ncols
    iters,      \* main: iters
    nw,         \* main: nw (gol-par bounds it with nrows)
    board,      \* main: board
    i,          \* main: the loop counter of the simulation loop
    pc,         \* where the main thread is
    new_board,  \* updateBoard: new_board
    ranges,     \* updateBoard (gol-par): ranges
    tid,        \* updateBoard (gol-par): index of the spawn loop, then of the join loop
    next,       \* gol-omp: the runtime's next-row counter of the dynamic schedule
    team,       \* gol-omp: number of threads of the parallel region
    wpc,        \* per worker: where it is
    wr,         \* per worker: r, the row it works on
    new_row,    \* per worker: new_row
    board0,     \* history: the board when the current (or last) step began
    writes,     \* history: per row, the workers that stored it in this step
    claims      \* history: per row, the workers the dynamic schedule gave it to

vars == <<pool, nw_arg, variant, nrows, ncols, iters, nw, board, i, pc, new_board, ranges,
          tid, next, team, wpc, wr, new_row, board0, writes, claims>>

Workers == 0 .. MaxWorkers - 1

\* ------------------------------------------------------------ conversions

\* vector::at(i): element i, counted from 0.
At(v, idx) == v[idx + 1]

\* x < n where x is an int and n a size_t: x is converted to unsigned, so a
\* negative x becomes a huge value that is not below any vector size.
SizeLess(x, n) == IF x < 0 THEN FALSE ELSE x < n

\* The value an int receives from a size_t expression whose mathematical
\* value is x: x modulo 2^64, then narrowed to 32 bits, two's complement.
WrapInt(x) ==
    IF x > IntMax THEN x - IntMax - IntMax - 2
    ELSE IF x < -IntMax - 1 THEN x + IntMax + IntMax + 2
    ELSE x

\* A bool pushed into a vector<int>.
BoolToInt(b) == IF b THEN 1 ELSE 0

\* --------------------------------------------------------------- updateCell

\* std::vector<int> range = {-1, 0, 1};
range == <<-1, 0, 1>>

\* gol-par: (offcol || offset) && (c+offcol >= 0) && (c+offcol < row.size())
CountsCellMissingCentreTest(offset, offcol, c, row) ==
    (c + offcol >= 0) /\ SizeLess(c + offcol, Len(row))
CountsCell(offset, offcol, c, row) ==
    (offcol # 0 \/ offset # 0) /\ (c + offcol >= 0) /\ SizeLess(c + offcol, Len(row))

\* gol-omp: ((offcol != 0) || offset != 0) && (c+offcol >= 0) && (c+offcol < row.size())
CountsCellOmp(offset, offcol, c, row) ==
    ((offcol # 0) \/ offset # 0) /\ (c + offcol >= 0) /\ SizeLess(c + offcol, Len(row))

\* The inner loop over offcol, from the k-th element of range on.
RECURSIVE InnerLoop(_, _, _, _, _, _)
InnerLoop(v, r, c, b, offset, k) ==
    IF k > Len(range) THEN 0
    ELSE LET offcol == range[k]
             row == At(b, r + offset)
             counts == IF v = "par" THEN CountsCell(offset, offcol, c, row)
                       ELSE CountsCellOmp(offset, offcol, c, row)
         IN  (IF counts THEN At(At(b, r + offset), c + offcol) ELSE 0)
             + InnerLoop(v, r, c, b, offset, k + 1)

\* (r+offset >= 0) && (r+offset < board.size())
RowInBoardInclusive(r, offset, b) == (r + offset >= 0) /\ (r + offset <= Len(b))
RowInBoard(r, offset, b) == (r + offset >= 0) /\ SizeLess(r + offset, Len(b))

\* The outer loop over offset, from the j-th element of range on.
RECURSIVE OuterLoop(_, _, _, _, _)
OuterLoop(v, r, c, b, j) ==
    IF j > Len(range) THEN 0
    ELSE LET offset == range[j]
         IN  (IF RowInBoard(r, offset, b) THEN InnerLoop(v, r, c, b, offset, 1) ELSE 0)
             + OuterLoop(v, r, c, b, j + 1)

\* neighbours, when the loops are over.
Neighbours(v, r, c, b) == OuterLoop(v, r, c, b, 1)

\* The return expression of updateCell.
RuleBirthWithoutNeighbours(neighbours, cell) ==
    (((neighbours = 2) \/ (neighbours = 3)) /\ (cell # 0))
    \/ ((cell = 0) /\ (neighbours = 3 \/ neighbours = 0))
RuleNoSurvivalOnTwo(neighbours, cell) ==
    ((neighbours = 3) /\ (cell # 0))
    \/ ((cell = 0) /\ (neighbours = 3))
RuleBirthOnTwo(neighbours, cell) ==
    (((neighbours = 2) \/ (neighbours = 3)) /\ (cell # 0))
    \/ ((cell = 0) /\ (neighbours = 2))
Rule(neighbours, cell) ==
    (((neighbours = 2) \/ (neighbours = 3)) /\ (cell # 0))
    \/ ((cell = 0) /\ (neighbours = 3))

updateCell(r, c, b) == Rule(Neighbours("par", r, c, b), At(At(b, r), c))
updateCellOmp(r, c, b) == Rule(Neighbours("omp", r, c, b), At(At(b, r), c))

UpdateCellOf(v, r, c, b) == IF v = "par" THEN updateCell(r, c, b) ELSE updateCellOmp(r, c, b)

\* The condition of the loop over the columns: i < row.size()
ColumnLoopContinuesShort(c, row) == c + 1 < Len(row)
ColumnLoopContinues(c, row) == c < Len(row)

\* The body of the row loop: new_row after the loop over the columns of row r.
RECURSIVE RowLoop(_, _, _, _, _)
RowLoop(v, r, b, c, acc) ==
    IF ~ ColumnLoopContinues(c, At(b, r)) THEN acc
    ELSE RowLoop(v, r, b, c + 1, Append(acc, BoolToInt(UpdateCellOf(v, r, c, b))))

ComputeRow(v, r, b) == RowLoop(v, r, b, 0, <<>>)

\* ------------------------------------------------- updateBoard (gol-par)

\* Board new_board(board.size()): that many empty rows.
EmptyBoard(n) == [x \in 1 .. n |-> <<>>]

\* range.start = (i==0 ? 0 : ranges.back().end + 1)
RangeStartNoPlusOne(rs, w) == IF w = 0 THEN 0 ELSE rs[Len(rs)].end
RangeStart(rs, w) == IF w = 0 THEN 0 ELSE rs[Len(rs)].end + 1

\* range.end = (i != (nworkers-1) ? range.start+range_size - 1 : board.size()-1)
\* followed by: if(i<rem) range.end++
\* range_size, rem and board.size() are size_t, range.end is an int.
RangeEndRemainderOffByOne(start, w, size, nworkers) ==
    LET range_size == size \div nworkers
        rem == size % nworkers
        end == IF w # nworkers - 1 THEN WrapInt(start + range_size - 1)
               ELSE WrapInt(size - 1)
    IN  IF w + 1 < rem THEN end + 1 ELSE end
RangeEndNoRemainder(start, w, size, nworkers) ==
    LET range_size == size \div nworkers
    IN  IF w # nworkers - 1 THEN WrapInt(start + range_size - 1)
        ELSE WrapInt(size - 1)
RangeEnd(start, w, size, nworkers) ==
    LET range_size == size \div nworkers
        rem == size % nworkers
        end == IF w # nworkers - 1 THEN WrapInt(start + range_size - 1)
               ELSE WrapInt(size - 1)
    IN  IF w < rem THEN end + 1 ELSE end

\* The loop that fills ranges, from worker w on.
RECURSIVE RangesLoop(_, _, _, _)
RangesLoop(rs, w, size, nworkers) ==
    IF ~ (w < nworkers) THEN rs
    ELSE LET start == RangeStart(rs, w)
         IN  RangesLoop(Append(rs, [start |-> start,
                                    end |-> RangeEnd(start, w, size, nworkers)]),
                        w + 1, size, nworkers)

Ranges(size, nworkers) == RangesLoop(<<>>, 0, size, nworkers)

\* std::thread(compute_chunk, ranges[i]): the range thread w is given.
ThreadRangeAlwaysFirst(rs, w) == At(rs, 0)
ThreadRange(rs, w) == At(rs, w)

\* compute_chunk: the condition of its row loop, r <= range.end
ChunkContinuesStrict(r, rng) == r < rng.end
ChunkContinues(r, rng) == r <= rng.end

\* new_board.at(r) = new_row: the pair <<board, new_board>> after the store.
StoreRowInPlace(b, nb, r, row) == <<[b EXCEPT ![r + 1] = row], nb>>
StoreRow(b, nb, r, row) == <<b, [nb EXCEPT ![r + 1] = row]>>

\* t.join() returns for thread w once the thread has run compute_chunk to its end.
JoinReturnsAtOnce(w) == TRUE
JoinReturnsNever(w) == FALSE
JoinReturns(w) == wpc[w] = "done"

\* ------------------------------------------------- updateBoard (gol-omp)

\* schedule(dynamic): a thread takes the counter's row and moves the counter on.
NextAfterClaimSkipping(n) == n + 2
NextAfterClaimStuck(n) == n
NextAfterClaim(n) == n + 1

\* A team of t threads is the master and t-1 others; the region has to create
\* those the runtime has not kept from the region before.
NeedsNewThreadsNever(t, kept) == FALSE
NeedsNewThreads(t, kept) == t - 1 > kept

\* The threads the runtime holds when a region of t threads ends, having held
\* kept before it: a team of one is the master alone and leaves the runtime's
\* threads as they are; a larger team leaves its t-1 others (threads beyond
\* those exit, missing ones were created).
ThreadsKept(t, kept) == IF t = 1 THEN kept ELSE t - 1

\* The implicit barrier of the parallel for: every thread of the team is through.
BarrierOpen == \A w \in 0 .. team - 1 : wpc[w] = "done"

\* ------------------------------------------------------------------- Init

\* initializeBoard: nrows rows of ncols cells, each rand() % 2.
Boards(nr, nc) == [1 .. nr -> [1 .. nc -> {0, 1}]]

NoWorker == [w \in Workers |-> "none"]

InitWith(maxRows, maxCols, itersSet, nwSet) ==
    /\ variant \in {"par", "omp"}
    /\ nrows \in 1 .. maxRows
    /\ ncols \in 1 .. maxCols
    /\ iters \in itersSet
    /\ nw_arg \in nwSet
    /\ nw = nw_arg
    /\ board \in Boards(nrows, ncols)
    /\ i = 0
    /\ pc = "start"
    /\ new_board = <<>>
    /\ ranges = <<>>
    /\ tid = 0
    /\ next = 0
    /\ team = 0
    /\ wpc = NoWorker
    /\ wr = [w \in Workers |-> 0]
    /\ new_row = [w \in Workers |-> <<>>]
    /\ board0 = board
    /\ writes = <<>>
    /\ claims = <<>>
    /\ pool = 0

Init == InitWith(MaxRows, MaxCols, 0 .. MaxIters, 1 .. MaxWorkers)

\* One step with one or two workers on larger boards: the runs that exercise
\* updateCell.
InitCell == InitWith(CellRows, CellCols, {1}, {1, 2})

\* ---------------------------------------------------------------- actions

\* gol-par, main: if(nw > nrows) nw = nrows;
BoundWorkersNever(n, rows) == n
BoundWorkers(n, rows) == IF n > rows THEN rows ELSE n

\* main up to the simulation loop: gol-par bounds nw, gol-omp does not.
MainBoundWorkers ==
    /\ pc = "start"
    /\ pc' = "loop"
    /\ nw' = IF variant = "par" THEN BoundWorkers(nw, nrows) ELSE nw
    /\ UNCHANGED <<pool, nw_arg, variant, nrows, ncols, iters, board, i, new_board, ranges, tid,
                   next, team, wpc, wr, new_row, board0, writes, claims>>

\* main: the condition of the simulation loop, i < iters
LoopContinuesOnceMore(k, n) == k <= n
LoopContinues(k, n) == k < n

\* main: the loop is over.
MainExit ==
    /\ pc = "loop"
    /\ ~ LoopContinues(i, iters)
    /\ pc' = "exit"
    /\ UNCHANGED <<pool, nw_arg, variant, nrows, ncols, iters, nw, board, i, new_board, ranges,
                   tid, next, team, wpc, wr, new_row, board0, writes, claims>>

\* main calls updateBoard; gol-par: new_board and the ranges are built.
UpdateBoardPar ==
    /\ pc = "loop"
    /\ LoopContinues(i, iters)
    /\ variant = "par"
    /\ new_board' = EmptyBoard(Len(board))
    /\ ranges' = Ranges(Len(board), nw)
    /\ tid' = 0
    /\ pc' = "spawn"
    /\ board0' = board
    /\ writes' = [x \in 1 .. Len(board) |-> <<>>]
    /\ claims' = [x \in 1 .. Len(board) |-> <<>>]
    /\ UNCHANGED <<pool, nw_arg, variant, nrows, ncols, iters, nw, board, i, next, team, wpc, wr,
                   new_row>>

\* tids.push_back(std::thread(compute_chunk, ranges[i])): the thread starts at
\* the head of its row loop. After the last one the join loop begins.
Spawn ==
    /\ pc = "spawn"
    /\ tid < nw
    /\ wpc' = [wpc EXCEPT ![tid] = "head"]
    /\ wr' = [wr EXCEPT ![tid] = ThreadRange(ranges, tid).start]
    /\ IF tid + 1 < nw
       THEN /\ tid' = tid + 1
            /\ pc' = pc
       ELSE /\ tid' = 0
            /\ pc' = "join"
    /\ UNCHANGED <<pool, nw_arg, variant, nrows, ncols, iters, nw, board, i, new_board, ranges,
                   next, team, new_row, board0, writes, claims>>

\* std::thread's constructor throws (no thread can be started): nothing catches
\* it and the process ends, threads and all.
SpawnFailsCaughtAndPublished ==
    /\ pc = "spawn"
    /\ tid < nw
    /\ board' = new_board
    /\ i' = i + 1
    /\ pc' = "loop"
    /\ new_board' = <<>>
    /\ ranges' = <<>>
    /\ tid' = 0
    /\ wpc' = NoWorker
    /\ wr' = [w \in Workers |-> 0]
    /\ new_row' = [w \in Workers |-> <<>>]
    /\ UNCHANGED <<pool, nw_arg, variant, nrows, ncols, iters, nw, next, team, board0,
                   writes, claims>>
SpawnFails ==
    /\ pc = "spawn"
    /\ tid < nw
    /\ pc' = "failed"
    /\ UNCHANGED <<pool, nw_arg, variant, nrows, ncols, iters, nw, board, i, new_board, ranges,
                   tid, next, team, wpc, wr, new_row, board0, writes, claims>>

\* compute_chunk, the head of the row loop: go on with row r or return.
ChunkHead(w) ==
    /\ variant = "par"
    /\ pc \in {"spawn", "join"}
    /\ wpc[w] = "head"
    /\ IF ChunkContinues(wr[w], ThreadRange(ranges, w))
       THEN /\ new_row' = [new_row EXCEPT ![w] = ComputeRow(variant, wr[w], board)]
            /\ wpc' = [wpc EXCEPT ![w] = "store"]
       ELSE /\ new_row' = new_row
            /\ wpc' = [wpc EXCEPT ![w] = "done"]
    /\ UNCHANGED <<pool, nw_arg, variant, nrows, ncols, iters, nw, board, i, pc, new_board, ranges,
                   tid, next, team, wr, board0, writes, claims>>

\* compute_chunk: new_board.at(r) = new_row; r++
ChunkStore(w) ==
    /\ variant = "par"
    /\ pc \in {"spawn", "join"}
    /\ wpc[w] = "store"
    /\ LET st == StoreRow(board, new_board, wr[w], new_row[w])
       IN  /\ board' = st[1]
           /\ new_board' = st[2]
    /\ writes' = [writes EXCEPT ![wr[w] + 1] = Append(@, w)]
    /\ wr' = [wr EXCEPT ![w] = @ + 1]
    /\ new_row' = [new_row EXCEPT ![w] = <<>>]
    /\ wpc' = [wpc EXCEPT ![w] = "head"]
    /\ UNCHANGED <<pool, nw_arg, variant, nrows, ncols, iters, nw, i, pc, ranges, tid, next, team,
                   board0, claims>>

\* for(std::thread& t: tids) t.join();
Join ==
    /\ pc = "join"
    /\ tid < nw
    /\ JoinReturns(tid)
    /\ IF tid + 1 < nw
       THEN /\ tid' = tid + 1
            /\ pc' = pc
       ELSE /\ tid' = 0
            /\ pc' = "joined"
    /\ UNCHANGED <<pool, nw_arg, variant, nrows, ncols, iters, nw, board, i, new_board, ranges,
                   next, team, wpc, wr, new_row, board0, writes, claims>>

\* main calls updateBoard; gol-omp: new_board is built and the parallel region
\* is reached: the runtime settles on a team of at most nw threads, the counter
\* is at row 0. No thread runs the loop before the whole team is there.
UpdateBoardOmp ==
    /\ pc = "loop"
    /\ LoopContinues(i, iters)
    /\ variant = "omp"
    /\ new_board' = EmptyBoard(Len(board))
    /\ \E t \in 1 .. nw :
          /\ team' = t
          /\ wpc' = [w \in Workers |-> IF w < t THEN "claim" ELSE "none"]
    /\ next' = 0
    /\ pc' = "parallel"
    /\ board0' = board
    /\ writes' = [x \in 1 .. Len(board) |-> <<>>]
    /\ claims' = [x \in 1 .. Len(board) |-> <<>>]
    /\ UNCHANGED <<pool, nw_arg, variant, nrows, ncols, iters, nw, board, i, ranges, tid, wr,
                   new_row>>

\* schedule(dynamic): thread w asks for the next row, r < board.size(), or
\* finds none left and waits at the barrier.
OmpClaim(w) ==
    /\ pc = "parallel"
    /\ wpc[w] = "claim"
    /\ IF next < Len(board)
       THEN /\ wr' = [wr EXCEPT ![w] = next]
            /\ next' = NextAfterClaim(next)
            /\ claims' = [claims EXCEPT ![next + 1] = Append(@, w)]
            /\ wpc' = [wpc EXCEPT ![w] = "compute"]
       ELSE /\ wpc' = [wpc EXCEPT ![w] = "done"]
            /\ UNCHANGED <<wr, next, claims>>
    /\ UNCHANGED <<pool, nw_arg, variant, nrows, ncols, iters, nw, board, i, pc, new_board, ranges,
                   tid, team, new_row, board0, writes>>

\* The loop body up to the store: new_row is computed from board.
OmpCompute(w) ==
    /\ pc = "parallel"
    /\ wpc[w] = "compute"
    /\ new_row' = [new_row EXCEPT ![w] = ComputeRow(variant, wr[w], board)]
    /\ wpc' = [wpc EXCEPT ![w] = "store"]
    /\ UNCHANGED <<pool, nw_arg, variant, nrows, ncols, iters, nw, board, i, pc, new_board, ranges,
                   tid, next, team, wr, board0, writes, claims>>

\* new_board.at(r) = new_row
OmpStore(w) ==
    /\ pc = "parallel"
    /\ wpc[w] = "store"
    /\ LET st == StoreRow(board, new_board, wr[w], new_row[w])
       IN  /\ board' = st[1]
           /\ new_board' = st[2]
    /\ writes' = [writes EXCEPT ![wr[w] + 1] = Append(@, w)]
    /\ new_row' = [new_row EXCEPT ![w] = <<>>]
    /\ wpc' = [wpc EXCEPT ![w] = "claim"]
    /\ UNCHANGED <<pool, nw_arg, variant, nrows, ncols, iters, nw, i, pc, ranges, tid, next, team,
                   wr, board0, claims>>

\* The runtime cannot create the threads the team needs beyond the master and
\* the threads it kept: libgomp reports the failure and exits the process,
\* before any thread has taken a row.
OmpLaunchFails ==
    /\ pc = "parallel"
    /\ NeedsNewThreads(team, pool)
    /\ next = 0
    /\ \A w \in 0 .. team - 1 : wpc[w] = "claim"
    /\ pc' = "failed"
    /\ UNCHANGED <<pool, nw_arg, variant, nrows, ncols, iters, nw, board, i, new_board,
                   ranges, tid, next, team, wpc, wr, new_row, board0, writes, claims>>

\* The end of the parallel for: the team's threads other than the master stay
\* with the runtime for the next region.
OmpBarrier ==
    /\ pc = "parallel"
    /\ BarrierOpen
    /\ pc' = "joined"
    /\ pool' = ThreadsKept(team, pool)
    /\ UNCHANGED <<nw_arg, variant, nrows, ncols, iters, nw, board, i, new_board, ranges,
                   tid, next, team, wpc, wr, new_row, board0, writes, claims>>

\* board = new_board; updateBoard returns and its locals are gone; i++
Publish ==
    /\ pc = "joined"
    /\ board' = new_board
    /\ i' = i + 1
    /\ pc' = "loop"
    /\ new_board' = <<>>
    /\ ranges' = <<>>
    /\ tid' = 0
    /\ next' = 0
    /\ team' = 0
    /\ wpc' = NoWorker
    /\ wr' = [w \in Workers |-> 0]
    /\ new_row' = [w \in Workers |-> <<>>]
    /\ UNCHANGED <<pool, nw_arg, variant, nrows, ncols, iters, nw, board0, writes, claims>>

Next ==
    \/ MainBoundWorkers
    \/ MainExit
    \/ UpdateBoardPar
    \/ Spawn
    \/ SpawnFails
    \/ \E w \in Workers : ChunkHead(w)
    \/ \E w \in Workers : ChunkStore(w)
    \/ Join
    \/ UpdateBoardOmp
    \/ \E w \in Workers : OmpClaim(w)
    \/ \E w \in Workers : OmpCompute(w)
    \/ \E w \in Workers : OmpStore(w)
    \/ OmpLaunchFails
    \/ OmpBarrier
    \/ Publish

Spec == Init /\ [][Next]_vars

SpecCell == InitCell /\ [][Next]_vars

\* The blinker of the 5x5 scenario: three live cells in row 2, columns 0..2.
Blinker ==
    <<(<<0, 0, 0, 0, 0>>),
      (<<0, 0, 0, 0, 0>>),
      (<<1, 1, 1, 0, 0>>),
      (<<0, 0, 0, 0, 0>>),
      (<<0, 0, 0, 0, 0>>)>>

\* Either program started on the blinker for two steps, any worker count.
InitBlinker ==
    /\ variant \in {"par", "omp"}
    /\ board = Blinker
    /\ nrows = Len(board)
    /\ ncols = Len(board[1])
    /\ iters = 2
    /\ nw_arg \in 1 .. MaxWorkers
    /\ nw = nw_arg
    /\ i = 0
    /\ pc = "start"
    /\ new_board = <<>>
    /\ ranges = <<>>
    /\ tid = 0
    /\ next = 0
    /\ team = 0
    /\ wpc = NoWorker
    /\ wr = [w \in Workers |-> 0]
    /\ new_row = [w \in Workers |-> <<>>]
    /\ board0 = board
    /\ writes = <<>>
    /\ claims = <<>>
    /\ pool = 0

SpecBlinker == InitBlinker /\ [][Next]_vars

\* updateBoard of gol-par called directly, once or twice, with any worker
\* count: the caller is main's loop without main's bounding of nw.
InitDirect ==
    /\ variant = "par"
    /\ nrows \in 1 .. MaxRows
    /\ ncols \in 1 .. MaxCols
    /\ iters \in 1 .. MaxIters
    /\ nw_arg \in 1 .. MaxWorkers
    /\ nw = nw_arg
    /\ board \in Boards(nrows, ncols)
    /\ i = 0
    /\ pc = "loop"
    /\ new_board = <<>>
    /\ ranges = <<>>
    /\ tid = 0
    /\ next = 0
    /\ team = 0
    /\ wpc = NoWorker
    /\ wr = [w \in Workers |-> 0]
    /\ new_row = [w \in Workers |-> <<>>]
    /\ board0 = board
    /\ writes = <<>>
    /\ claims = <<>>
    /\ pool = 0

NextDirect ==
    \/ MainExit
    \/ UpdateBoardPar
    \/ Spawn
    \/ SpawnFails
    \/ \E w \in Workers : ChunkHead(w)
    \/ \E w \in Workers : ChunkStore(w)
    \/ Join
    \/ Publish

SpecDirect == InitDirect /\ [][NextDirect]_vars

\* The steps of the main thread, a failing thread launch aside.
MainStep ==
    \/ MainBoundWorkers
    \/ MainExit
    \/ UpdateBoardPar
    \/ Spawn
    \/ Join
    \/ UpdateBoardOmp
    \/ OmpBarrier
    \/ Publish

\* The steps of worker thread w.
WorkerStep(w) ==
    \/ ChunkHead(w)
    \/ ChunkStore(w)
    \/ OmpClaim(w)
    \/ OmpCompute(w)
    \/ OmpStore(w)

\* The operating system schedules every thread that can run: the main thread
\* and each worker get their next step. Whether a launch fails is up to the
\* system and not forced.
Fairness ==
    /\ WF_vars(MainStep)
    /\ \A w \in Workers : WF_vars(WorkerStep(w))

\* The runs checked for progress: every row and worker count of Init on boards
\* of one column (progress does not depend on what the cells hold).
InitLive == InitWith(MaxRows, 1, 0 .. MaxIters, 1 .. MaxWorkers)

LiveSpec == InitLive /\ [][Next]_vars /\ Fairness

\* ===================================================================
\* Properties
\* ===================================================================

\* Row and column indices of a board, counted from 0.
RowsOf(b) == 0 .. Len(b) - 1
ColsOf(b, r) == 0 .. Len(At(b, r)) - 1

\* The main thread is back in main after at least one step.
StepPublished == pc \in {"loop", "exit"} /\ i > 0

\* A step is under way: updateBoard has been entered and has not assigned board.
StepActive == pc \in {"spawn", "join", "parallel", "joined"}

\* The sequential reference: row by row, column by column, updateCell applied
\* to the previous generation b.
SeqStep(b) ==
    [x \in 1 .. Len(b) |->
        [y \in 1 .. Len(b[x]) |-> BoolToInt(updateCell(x - 1, y - 1, b))]]

\* The threads the step has started.
Started == {w \in Workers : wpc[w] # "none"}

\* ------------------------------------------------------------------- C1
\* C1: in gol-par, whenever a step has been published (under any worker count
\* the driver passes, 1 <= nw <= nrows, and any interleaving of the threads),
\* the board equals the sequential row-by-row application of updateCell to
\* the board the step began with.
C1_ParEqualsSequential ==
    (variant = "par" /\ StepPublished) =>
        /\ nw >= 1
        /\ nw <= nrows
        /\ board = SeqStep(board0)

\* A second step of gol-par, run by three threads, that changed the board.
C1_Witness ==
    /\ variant = "par"
    /\ pc = "loop"
    /\ i = 2
    /\ nw = 3
    /\ board # board0
    /\ \E r \in RowsOf(board) : \E c \in ColsOf(board, r) : At(At(board, r), c) = 1

\* ------------------------------------------------------------------- C2
\* C2: when the main thread is about to execute board = new_board (both
\* programs), every thread of the step has finished all its rows and every
\* row of new_board holds the next-generation row computed from the board the
\* step began with; so the board the driver sees after the assignment is never
\* partly old, partly new or missing a row.
C2_PublishAfterAllWorkers ==
    /\ pc = "joined" =>
          /\ \A w \in Workers : wpc[w] \in {"done", "none"}
          /\ Cardinality(Started) = (IF variant = "par" THEN nw ELSE team)
          /\ Len(new_board) = Len(board0)
          /\ \A r \in RowsOf(board0) :
                At(new_board, r) = ComputeRow(variant, r, board0)
    /\ StepPublished => board = SeqStep(board0)

\* gol-par is about to publish a board that differs from the old one, after
\* several threads worked on it.
C2_Witness ==
    /\ pc = "joined"
    /\ variant = "par"
    /\ nw >= 2
    /\ new_board # board
    /\ \A w \in 0 .. nw - 1 : wpc[w] = "done"

\* ------------------------------------------------------------------- C3
\* C3: in a step of gol-par every row of new_board is stored at most once,
\* by the thread whose range holds it, and exactly once when the threads are
\* joined; the threads touch no counter and no team state (both stay unused).
C3_StaticRowsWrittenOnce ==
    variant = "par" =>
        /\ \A x \in DOMAIN writes : Len(writes[x]) <= 1
        /\ (StepActive => \A x \in DOMAIN writes : \A k \in DOMAIN writes[x] :
               LET rng == At(ranges, writes[x][k])
               IN  rng.start <= x - 1 /\ x - 1 <= rng.end)
        /\ (pc = "joined" => \A x \in DOMAIN writes : Len(writes[x]) = 1)
        /\ (StepActive => \A x \in 1 .. Len(board) :
               Cardinality({w \in 0 .. nw - 1 :
                   At(ranges, w).start <= x - 1 /\ x - 1 <= At(ranges, w).end}) = 1)
        /\ next = 0
        /\ team = 0
        /\ \A x \in DOMAIN claims : claims[x] = <<>>

\* Three threads have each stored their one row of a three-row board.
C3_Witness ==
    /\ variant = "par"
    /\ pc = "joined"
    /\ writes = <<(<<0>>), (<<1>>), (<<2>>)>>

\* ------------------------------------------------------------------- C4
\* C4: the ranges updateBoard builds in gol-par (where 1 <= nworkers <= nrows)
\* are one per worker, start at row 0, are contiguous (each start is the
\* previous end + 1, hence sorted by start and pairwise disjoint), and
\* their union is exactly the rows 0 .. nrows-1.
RangeRows(rng) == {r \in 0 .. MaxRows + MaxWorkers : rng.start <= r /\ r <= rng.end}

C4_RangesPartitionRows ==
    (variant = "par" /\ StepActive) =>
        /\ 1 <= nw /\ nw <= Len(board)
        /\ Len(ranges) = nw
        /\ ranges[1].start = 0
        /\ \A k \in 2 .. Len(ranges) : ranges[k].start = ranges[k - 1].end + 1
        /\ \A k \in 2 .. Len(ranges) : ranges[k - 1].start < ranges[k].start
        /\ \A k, m \in 1 .. Len(ranges) :
              k # m => RangeRows(ranges[k]) \cap RangeRows(ranges[m]) = {}
        /\ UNION {RangeRows(ranges[k]) : k \in 1 .. Len(ranges)} = RowsOf(board)

\* Three rows split between two workers: rows 0..1 and row 2.
C4_Witness ==
    /\ variant = "par"
    /\ pc = "spawn"
    /\ Len(board) = 3
    /\ ranges = <<[start |-> 0, end |-> 1], [start |-> 2, end |-> 2]>>

\* ------------------------------------------------------------------- C5
\* C5: from the start of a step until board = new_board (both programs) the
\* board is the one the step began with, whatever the workers have done, and
\* every row a worker has computed is the row computed from that board.
C5_BoardReadOnlyDuringStep ==
    (StepActive \/ pc = "failed") =>
        /\ board = board0
        /\ \A w \in Workers :
              wpc[w] = "store" => new_row[w] = ComputeRow(variant, wr[w], board0)
        /\ \A r \in RowsOf(board0) :
              At(new_board, r) \in {<<>>, ComputeRow(variant, r, board0)}

\* Mid-step: one row of a different next generation is already stored and a
\* worker holds another computed row, while the board is still the old one.
C5_Witness ==
    /\ StepActive
    /\ \E w \in Workers : wpc[w] = "store" /\ new_row[w] # At(board, wr[w])
    /\ \E r \in RowsOf(board) :
          At(new_board, r) # <<>> /\ At(new_board, r) # At(board, r)

\* ------------------------------------------------------------------- C6
\* The state of cell (rr, cc) of board b, and 0 for a place off the board.
RefState(rr, cc, b) ==
    IF rr \in 0 .. Len(b) - 1 /\ cc \in 0 .. Len(b[1]) - 1
    THEN b[rr + 1][cc + 1]
    ELSE 0

\* The sum of the states of the 8 places around (r, c).
RefLiveCount(r, c, b) ==
      RefState(r - 1, c - 1, b) + RefState(r - 1, c, b) + RefState(r - 1, c + 1, b)
    + RefState(r, c - 1, b) + RefState(r, c + 1, b)
    + RefState(r + 1, c - 1, b) + RefState(r + 1, c, b) + RefState(r + 1, c + 1, b)

\* The rule as the specification words it.
RefAlive(r, c, b) ==
    LET n == RefLiveCount(r, c, b)
        alive == At(At(b, r), c) = 1
    IN  (alive /\ n \in {2, 3}) \/ (~ alive /\ n = 3)

\* C6: for every board the program can start with and every cell of it,
\* updateCell (of the program run) returns alive exactly when the cell is alive
\* with 2 or 3 live neighbours or dead with exactly 3; a cell with no live
\* neighbour is dead next; and the rows the workers stored hold exactly these
\* values.
C6_TransitionRule ==
    /\ pc = "start" =>
          \A r \in RowsOf(board) : \A c \in ColsOf(board, r) :
              /\ UpdateCellOf(variant, r, c, board) <=> RefAlive(r, c, board)
              /\ RefLiveCount(r, c, board) = 0 => ~ UpdateCellOf(variant, r, c, board)
    /\ pc = "joined" =>
          \A r \in RowsOf(board0) : \A c \in ColsOf(board0, r) :
              At(At(new_board, r), c) = BoolToInt(RefAlive(r, c, board0))

\* A computed generation in which a dead cell with 3 live neighbours was born,
\* a live cell with 2 or 3 survived and a live cell with none died.
C6_Witness ==
    /\ pc = "joined"
    /\ \E r \in RowsOf(board0) : \E c \in ColsOf(board0, r) :
          /\ At(At(board0, r), c) = 0
          /\ RefLiveCount(r, c, board0) = 3
          /\ At(At(new_board, r), c) = 1
    /\ \E r \in RowsOf(board0) : \E c \in ColsOf(board0, r) :
          /\ At(At(board0, r), c) = 1
          /\ RefLiveCount(r, c, board0) \in {2, 3}
          /\ At(At(new_board, r), c) = 1
    /\ \E r \in RowsOf(board0) : \E c \in ColsOf(board0, r) :
          /\ At(At(board0, r), c) = 1
          /\ RefLiveCount(r, c, board0) = 0
          /\ At(At(new_board, r), c) = 0

\* ------------------------------------------------------------------- C7
\* C7: for every board the program can start with, the count updateCell (of the
\* program run) computes for a cell is the sum of the states of the cells of
\* its 3x3 block, centre excluded, that lie on the board: nothing off the board
\* and nothing from the opposite edge counts; and every row a worker computes
\* follows from these counts.
C7_NeighbourCountClipped ==
    /\ pc = "start" =>
          \A r \in RowsOf(board) : \A c \in ColsOf(board, r) :
              /\ At(At(board, r), c) \in {0, 1}
              /\ Neighbours(variant, r, c, board) = RefLiveCount(r, c, board)
    /\ \A w \in Workers : wpc[w] = "store" =>
          \A c \in ColsOf(board0, wr[w]) :
              At(new_row[w], c) =
                  BoolToInt(Rule(RefLiveCount(wr[w], c, board0),
                                 At(At(board0, wr[w]), c)))

\* On a 3x3 board whose only live cells are the three corners away from
\* (0, 0), the corner (0, 0) was computed dead: on a torus it would have three
\* live neighbours and be born.
C7_Witness ==
    /\ pc = "joined"
    /\ board0 = <<(<<0, 0, 1>>), (<<0, 0, 0>>), (<<1, 0, 1>>)>>
    /\ Neighbours(variant, 0, 0, board0) = 0
    /\ At(At(new_board, 0), 0) = 0

\* ------------------------------------------------------------------- C8
\* C8: in every state of a run of either program the board has nrows rows
\* of ncols cells each, as the initial board has.
C8_ShapePreserved ==
    /\ Len(board) = nrows
    /\ \A x \in 1 .. Len(board) : Len(board[x]) = ncols

\* After two steps that changed it, the 3x2 board is still 3x2.
C8_Witness ==
    /\ pc = "exit"
    /\ i = 2
    /\ board # board0
    /\ Len(board) = 3
    /\ \A x \in 1 .. 3 : Len(board[x]) = 2

\* ------------------------------------------------------------------- C9
\* What the static strategy leaves in new_board for board b and n workers:
\* each row of each range, computed from b; a row of no range stays empty.
StaticResult(b, n) ==
    LET rs == Ranges(Len(b), n)
    IN  [x \in 1 .. Len(b) |->
            IF \E k \in 1 .. Len(rs) : rs[k].start <= x - 1 /\ ChunkContinues(x - 1, rs[k])
            THEN ComputeRow("par", x - 1, b)
            ELSE <<>>]

\* C9: after every step, under every interleaving, the board either program
\* publishes is the board the static strategy yields from the board the step
\* began with and the worker count gol-par's driver would use: the dynamic
\* and the static strategy agree step by step.
C9_DynamicEqualsStatic ==
    StepPublished => board = StaticResult(board0, BoundWorkers(nw, nrows))

\* gol-omp has published a changed board whose rows were stored by
\* different threads.
C9_Witness ==
    /\ variant = "omp"
    /\ StepPublished
    /\ board # board0
    /\ \E x, y \in DOMAIN writes : writes[x] # writes[y]

\* ------------------------------------------------------------------ C10
\* Rows are handed out in order: the rows below the counter have one claim,
\* the others none.
C10_State ==
    variant = "omp" =>
        /\ \A x \in DOMAIN claims : Len(claims[x]) <= 1
        /\ (pc = "parallel" => \A x \in DOMAIN claims :
               Len(claims[x]) = (IF x - 1 < next THEN 1 ELSE 0))
        /\ \A x \in DOMAIN writes :
               writes[x] = <<>> \/ writes[x] = claims[x]
        /\ (pc = "joined" => \A x \in DOMAIN claims :
               Len(claims[x]) = 1 /\ writes[x] = claims[x])
        /\ ranges = <<>>

\* A step of one thread in the parallel region changes nothing of another
\* thread, not the board, and of what the threads share only the counter
\* (by one, with the claim) and rows of new_board that this thread claimed.
C10_Frame ==
    (variant = "omp" /\ pc = "parallel" /\ pc' = "parallel") =>
        \E w \in 0 .. team - 1 :
            /\ \A u \in Workers \ {w} :
                  wpc'[u] = wpc[u] /\ wr'[u] = wr[u] /\ new_row'[u] = new_row[u]
            /\ board' = board
            /\ team' = team
            /\ \A x \in DOMAIN new_board :
                  new_board'[x] # new_board[x] => claims[x] = <<w>>
            /\ next' # next =>
                  next' = next + 1 /\ claims'[next + 1] = <<w>> /\ wr'[w] = next

\* C10: in gol-omp, under every interleaving, every row is claimed by exactly
\* one thread exactly once in a step and stored by that thread, and the only
\* state a thread's step shares with the others is the next-row counter.
C10_DynamicRowsClaimedOnce == [] C10_State /\ [][C10_Frame]_vars

\* Two threads shared three rows: thread 1 claimed rows 0 and 2, thread 0 row 1.
C10_Witness ==
    /\ variant = "omp"
    /\ pc = "joined"
    /\ claims = <<(<<1>>), (<<0>>), (<<1>>)>>
    /\ writes = claims

\* ------------------------------------------------------------------ C11
\* The loop counter never passes iters, a step is under way only while a step
\* is owed, main leaves the loop after exactly iters steps, no thread exists
\* while main is between steps, and with iters = 0 the board is the initial one.
C11_State ==
    /\ i >= 0 /\ i <= iters
    /\ StepActive => i < iters
    /\ pc = "exit" => i = iters
    /\ pc \in {"start", "loop", "exit"} => \A w \in Workers : wpc[w] = "none"
    /\ (pc = "exit" /\ iters = 0) => (i = 0 /\ board = board0)

\* A step is entered only from the loop head, with no thread of an earlier
\* step around and the earlier step (if any) published; the counter moves only
\* by one, at the assignment board = new_board, when every thread is through.
C11_Step ==
    /\ (pc' \in {"spawn", "parallel"} /\ pc \notin {"spawn", "parallel"}) =>
          /\ pc = "loop"
          /\ \A w \in Workers : wpc[w] = "none"
          /\ i > 0 => board = SeqStep(board0)
          /\ board0' = board
    /\ i' # i =>
          /\ i' = i + 1
          /\ pc = "joined" /\ pc' = "loop"
          /\ \A w \in Workers : wpc[w] \in {"done", "none"}
          /\ board' = SeqStep(board0)

\* C11: the driver applies the step exactly iters times, one after the other:
\* a step is dispatched only after the one before has published its board and
\* none of its workers is still running, and with iters = 0 the board stays as
\* initialized.
C11_StepsInSequence == [] C11_State /\ [][C11_Step]_vars

\* main has left the loop after two steps, the second of which changed the board.
C11_Witness ==
    /\ pc = "exit"
    /\ iters = 2
    /\ i = 2
    /\ board # board0

\* ------------------------------------------------------------------ C12
\* The moves of the main thread: dispatch, workers running while it
\* dispatches and joins, the join's end, the assignment.
PcOrder ==
    {<<"start", "loop">>, <<"loop", "spawn">>, <<"loop", "parallel">>,
     <<"spawn", "join">>, <<"spawn", "failed">>, <<"join", "joined">>,
     <<"parallel", "joined">>, <<"parallel", "failed">>, <<"joined", "loop">>, <<"loop", "exit">>}

\* The threads of the step are all there: the join loop of gol-par has begun,
\* or the team of gol-omp needed no new thread or has begun to take rows.
AllLaunched ==
    \/ pc = "join"
    \/ /\ pc = "parallel"
       /\ \/ ~ NeedsNewThreads(team, pool)
          \/ next > 0
          \/ \E w \in 0 .. team - 1 : wpc[w] # "claim"

\* A worker that has rows left can always take its next step: it never waits
\* for another worker.
NoWorkerWaits ==
    \A w \in Workers :
        /\ (pc \in {"spawn", "join"} /\ wpc[w] \in {"head", "store"}) =>
              ENABLED (ChunkHead(w) \/ ChunkStore(w))
        /\ (pc = "parallel" /\ wpc[w] \in {"claim", "compute", "store"}) =>
              ENABLED (OmpClaim(w) \/ OmpCompute(w) \/ OmpStore(w))

\* C12 as stated: under fair scheduling every step that is dispatched reaches
\* the end of the join and is published, and the run ends with main leaving
\* the loop.
C12_EveryStepCompletes ==
    /\ (pc \in {"spawn", "parallel"}) ~> (pc = "joined")
    /\ (pc = "joined") ~> (pc \in {"loop", "exit"})
    /\ <>(pc = "exit")

\* C12, amended: under fair scheduling no worker ever waits for another, the
\* main thread moves through dispatch, join and assignment in that order, a
\* step whose threads were all launched is joined and published, and the run
\* ends: main leaves the loop, or the launch of a thread failed and ended the
\* process in that step.
C12_StepCompletesUnlessLaunchFails ==
    /\ [] NoWorkerWaits
    /\ [][pc' # pc => <<pc, pc'>> \in PcOrder]_vars
    /\ (pc \in {"spawn", "parallel"}) ~> (pc \in {"joined", "failed"})
    /\ AllLaunched ~> (pc = "joined")
    /\ (pc = "joined") ~> (pc \in {"loop", "exit"})
    /\ <>(pc \in {"exit", "failed"})

\* The second of two steps of gol-par, run by three threads, is joined.
C12_Witness ==
    /\ variant = "par"
    /\ pc = "joined"
    /\ i = 1
    /\ iters = 2
    /\ nw = 3
    /\ \A w \in Workers : wpc[w] = "done"

\* ------------------------------------------------------------------ C13
\* C13: in every state the driver's board is the complete previous generation
\* or, once the step is published, the complete next one; when the launch of a
\* thread fails the process is over (nothing is retried, no step follows), the
\* step is not counted and the board is still the previous generation.
C13_LaunchFailureLeavesBoard ==
    /\ \/ board = board0
       \/ StepPublished /\ board = SeqStep(board0)
    /\ pc = "failed" =>
          /\ variant = "omp" => new_board = EmptyBoard(Len(board))
          /\ board = board0
          /\ i < iters
          /\ ~ ENABLED Next

\* The launch of the third thread failed after an earlier thread had stored a
\* row that differs from the board's, with another row not yet stored.
C13_Witness ==
    /\ pc = "failed"
    /\ tid = 2
    /\ \E r \in RowsOf(board) :
          At(new_board, r) # <<>> /\ At(new_board, r) # At(board, r)
    /\ \E r \in RowsOf(board) : At(new_board, r) = <<>>

\* ------------------------------------------------------------------ C14
\* Every cell of board b is dead.
AllDead(b) == \A x \in DOMAIN b : \A y \in DOMAIN b[x] : b[x][y] = 0

\* C14: no step of either program, under any worker count and interleaving,
\* leads from a board whose cells are all dead to a board with a live cell;
\* so a dead board is dead after any number of steps, and every row computed
\* from a dead board is dead.
C14_DeadBoardStaysDead ==
    /\ [][AllDead(board) => AllDead(board')]_vars
    /\ [](AllDead(board0) /\ (StepActive \/ StepPublished) =>
            /\ AllDead(new_board)
            /\ AllDead(board)
            /\ \A w \in Workers : \A y \in DOMAIN new_row[w] : new_row[w][y] = 0)

\* Two steps were run on a 3x2 board that was dead before the second and is
\* dead after it.
C14_Witness ==
    /\ pc = "exit"
    /\ i = 2
    /\ Len(board) = 3
    /\ Len(board[1]) = 2
    /\ AllDead(board0)
    /\ AllDead(board)

\* ------------------------------------------------------------------ C15
\* The vertical line through the blinker's middle cell: column 1, rows 1..3.
BlinkerVertical ==
    <<(<<0, 0, 0, 0, 0>>),
      (<<0, 1, 0, 0, 0>>),
      (<<0, 1, 0, 0, 0>>),
      (<<0, 1, 0, 0, 0>>),
      (<<0, 0, 0, 0, 0>>)>>

\* C15: started on the 5x5 blinker (row 2, columns 0..2), either program with
\* any worker count has the vertical line of column 1, rows 1..3 after one
\* step and the original board again after the second step.
C15_BlinkerPeriodTwo ==
    /\ (i = 0 \/ i = 2) /\ pc \in {"start", "loop", "exit"} => board = Blinker
    /\ i = 1 /\ pc = "loop" => board = BlinkerVertical /\ board0 = Blinker
    /\ i = 2 /\ pc \in {"loop", "exit"} => board0 = BlinkerVertical
    /\ pc = "exit" => i = 2

\* gol-par with three threads has run both steps: the board before the second
\* step was the vertical line and the board is the blinker again.
C15_Witness ==
    /\ variant = "par"
    /\ nw = 3
    /\ pc = "exit"
    /\ i = 2
    /\ board0 = BlinkerVertical
    /\ board = Blinker

\* ------------------------------------------------------------------ C16
\* C16: in gol-par, once main is past its bounding of nw, the worker count is
\* the requested one capped at nrows (so nw <= nrows, and nw = nrows when more
\* workers than rows were requested); every step that has been dispatched has
\* one range per worker and every range holds at least one row (start <= end).
C16_WorkersCappedAtRows ==
    (variant = "par" /\ pc # "start") =>
        /\ nw <= nrows
        /\ nw = (IF nw_arg > nrows THEN nrows ELSE nw_arg)
        /\ StepActive =>
              /\ Len(ranges) = nw
              /\ nw <= Len(board)
              /\ \A k \in 1 .. Len(ranges) : ranges[k].start <= ranges[k].end

\* Three workers requested for two rows: the step runs with two workers, one
\* row each.
C16_Witness ==
    /\ variant = "par"
    /\ nw_arg = 3
    /\ nrows = 2
    /\ pc = "join"
    /\ nw = 2
    /\ ranges = <<[start |-> 0, end |-> 0], [start |-> 1, end |-> 1]>>

\* ------------------------------------------------------------------ C17
\* The number of rows of a range.
RangeSize(rng) == rng.end - rng.start + 1

\* The sizes the partition is to have: base + 1 for workers 0 .. rem-1, base
\* for the others, the last one included.
BalancedSizes(rs, size, nworkers) ==
    LET base == size \div nworkers
        rem == size % nworkers
    IN  /\ Len(rs) = nworkers
        /\ \A w \in 0 .. nworkers - 1 :
              RangeSize(At(rs, w)) = (IF w < rem THEN base + 1 ELSE base)
        /\ \A w, u \in 0 .. nworkers - 1 :
              RangeSize(At(rs, w)) - RangeSize(At(rs, u)) <= 1

\* C17: for 1 <= nworkers <= nrows the ranges of gol-par give workers
\* 0 .. rem-1 base + 1 rows each and every other worker, the last one
\* included, base rows (base = nrows / nworkers, rem = nrows % nworkers), so
\* that sizes differ by at most 1: for the ranges of every step under way, and
\* for the partitioner applied to every row count and worker count in bounds.
C17_RangeSizesBalanced ==
    /\ (variant = "par" /\ StepActive) => BalancedSizes(ranges, Len(board), nw)
    /\ pc = "start" =>
          \A size \in 1 .. MaxRows : \A n \in 1 .. size :
              BalancedSizes(Ranges(size, n), size, n)

\* Three rows, two workers, both started: base = 1 and rem = 1, worker 0 has
\* two rows and the last worker one.
C17_Witness ==
    /\ variant = "par"
    /\ pc = "join"
    /\ Len(board) = 3
    /\ nw = 2
    /\ RangeSize(At(ranges, 0)) = 2
    /\ RangeSize(At(ranges, 1)) = 1

\* ------------------------------------------------------------------ C18
\* idx is a valid index of a vector of n elements: at(idx) does not throw.
InBounds(idx, n) == 0 <= idx /\ idx < n

\* The rows a worker of the step under way is about to read from board or
\* write to new_board.
RowsInUse(w) ==
    IF variant = "par"
    THEN IF wpc[w] = "store" THEN {wr[w]}
         ELSE IF wpc[w] = "head" /\ ChunkContinues(wr[w], ThreadRange(ranges, w))
              THEN {wr[w]}
              ELSE {}
    ELSE IF wpc[w] \in {"compute", "store"} THEN {wr[w]} ELSE {}

\* Every access updateCell(r, c, b) of variant v makes is inside b: the row
\* r+offset once the row test has passed, the column c+offcol of that row once
\* the inner test has passed, and the cell (r, c) of the return expression.
UpdateCellInBounds(v, r, c, b) ==
    /\ InBounds(r, Len(b)) /\ InBounds(c, Len(At(b, r)))
    /\ \A j \in DOMAIN range :
          RowInBoard(r, range[j], b) =>
              /\ InBounds(r + range[j], Len(b))
              /\ \A k \in DOMAIN range :
                    (IF v = "par"
                     THEN CountsCell(range[j], range[k], c, At(b, r + range[j]))
                     ELSE CountsCellOmp(range[j], range[k], c, At(b, r + range[j])))
                    => InBounds(c + range[k], Len(At(b, r + range[j])))

\* C18: in every state of either program (boards of at least one row and one
\* column, 1 <= nworkers <= nrows in gol-par), every row a worker reads from
\* board or stores to new_board is in [0, nrows), and every row and column
\* updateCell reads, for every cell the column loop hands it, is inside the
\* board: no at() fails.
C18_IndicesInBounds ==
    /\ StepActive => \A w \in Workers : \A r \in RowsInUse(w) :
          /\ InBounds(r, nrows)
          /\ InBounds(r, Len(board))
          /\ InBounds(r, Len(new_board))
          /\ \A c \in 0 .. Len(At(board, r)) - 1 :
                ColumnLoopContinues(c, At(board, r)) =>
                    UpdateCellInBounds(variant, r, c, board)
    /\ \A r \in 0 .. Len(board) - 1 : \A c \in 0 .. Len(At(board, r)) - 1 :
          /\ UpdateCellInBounds("par", r, c, board)
          /\ UpdateCellInBounds("omp", r, c, board)

\* gol-omp on a 3x2 board: one thread is about to store the last row while
\* another is about to read the first.
C18_Witness ==
    /\ variant = "omp"
    /\ pc = "parallel"
    /\ Len(board) = 3
    /\ Len(board[1]) = 2
    /\ \E w, u \in Workers :
          /\ wpc[w] = "store" /\ wr[w] = 2
          /\ wpc[u] = "compute" /\ wr[u] = 0

\* ------------------------------------------------------------------ C19
\* The ranges of a call with more workers than rows: one row for each of the
\* workers 0 .. size-1, start = size and end = size-1 for every further one.
OneRowEach(rs, size, nworkers) ==
    /\ Len(rs) = nworkers
    /\ \A w \in 0 .. size - 1 : At(rs, w) = [start |-> w, end |-> w]
    /\ \A w \in size .. nworkers - 1 : At(rs, w) = [start |-> size, end |-> size - 1]

\* C19: when updateBoard of gol-par is called with nworkers > nrows, the
\* ranges are [w, w] for the workers 0 .. nrows-1 and [nrows, nrows-1] (empty)
\* for every further worker, so that the rows 0 .. nrows-1 are covered exactly
\* once; no thread uses a row outside [0, nrows), each row is stored at most
\* once and by the worker of the same index, and the board the call leaves
\* is the sequential result.
C19_DirectCallMoreWorkersThanRows ==
    (nw > Len(board)) =>
        /\ StepActive =>
              /\ OneRowEach(ranges, Len(board), nw)
              /\ \A x \in 0 .. Len(board) - 1 :
                    Cardinality({w \in 0 .. nw - 1 : x \in RangeRows(At(ranges, w))}) = 1
              /\ UNION {RangeRows(At(ranges, w)) : w \in 0 .. nw - 1} = RowsOf(board)
              /\ \A w \in Workers : \A r \in RowsInUse(w) :
                    InBounds(r, Len(board)) /\ InBounds(r, Len(new_board))
              /\ \A x \in DOMAIN writes : \A k \in DOMAIN writes[x] :
                    Len(writes[x]) = 1 /\ writes[x][k] = x - 1
        /\ pc = "joined" => new_board = SeqStep(board0) /\ board = board0
        /\ StepPublished => board = SeqStep(board0)

\* Three threads for two rows have been joined: the third had the empty range
\* [2, 1], and new_board is the sequential result, a board unlike the old one.
C19_Witness ==
    /\ pc = "joined"
    /\ nw = 3
    /\ Len(board) = 2
    /\ ranges = <<[start |-> 0, end |-> 0], [start |-> 1, end |-> 1],
                  [start |-> 2, end |-> 1]>>
    /\ writes = <<(<<0>>), (<<1>>)>>
    /\ new_board = SeqStep(board)
    /\ new_board # board

====
